---- MODULE Spec2Model ----
(***************************************************************************)
(* State-machine model of the two pipelines of datasets-organelle-igr:     *)
(*   scripts/brms.py         run_single   (tree reconciliation, join, fit) *)
(*   scripts/summary_igs.py  igs_multiple (parallel extraction and merge)  *)
(* The taxonomy library (ete4 NCBITaxa), the R script and the process pool *)
(* are external: the tree returned by get_topology and the exit code of    *)
(* the R script are nondeterministic, the species table is an input.       *)
(***************************************************************************)
EXTENDS Integers, Sequences, FiniteSets, TLC

\* ---------------------------------------------------------------- bounds
\* taxids are 1..MaxId
MaxId == 3
\* rows of the input TSV (brms.py --tsv): 1..MaxRows
MaxRows == 2
\* rows of the IGS summary table (brms.py --igs): 0..MaxIgsRows
MaxIgsRows == 2

Ids == 1..MaxId
\* accession numbers (the an_column values) and feature ids
ANs == {1, 2}
FeatIds == {1, 2}
\* a null cell of a joined table
Null == 0
\* the exit status of a process that has not exited (then <<status>>)
Running == <<>>

SeqsFromTo(S, lo, hi) == UNION {[1..k -> S] : k \in lo..hi}

\* ------------------------------------------------------- pure functions
\* str(int) / pl.String cast: the decimal digits, most significant first
RECURSIVE ToStr(_)
ToStr(n) == IF n < 10 THEN <<n>> ELSE ToStr(n \div 10) \o <<n % 10>>

\* int(str)
RECURSIVE ToInt(_)
ToInt(s) ==
    IF Len(s) = 1 THEN s[1]
    ELSE 10 * ToInt(SubSeq(s, 1, Len(s) - 1)) + s[Len(s)]

Min(S) == CHOOSE m \in S : \A x \in S : m <= x

\* the set of values of a column, cast to strings
ColumnAsStrings(col) == {ToStr(col[i]) : i \in 1..Len(col)}

\* SELECT parent, MIN(taxid) FROM species WHERE parent IN (taxids) GROUP BY parent
\* sp is the species table: sp[t] is the parent of taxid t (0: a parent that is
\* no taxid of the model)

get_first_descendants(sp, taxids) ==
    LET Children(p) == {t \in DOMAIN sp : sp[t] = p}
        Parents == {p \in taxids : Children(p) # {}}
    IN  [p \in Parents |-> Min(Children(p))]

\* pl.col(c).replace_strict(mapping, default=pl.col(c))
replace_strict(col, mapping) ==
    [i \in 1..Len(col) |->
        IF col[i] \in DOMAIN mapping THEN mapping[col[i]] ELSE col[i]]

\* validade_tree: (missing_in_tree, extra_in_tree)
validade_tree(tree_taxa, taxa) ==
    [missing |-> taxa \ tree_taxa, extra |-> tree_taxa \ taxa]

VARIABLES
    \* ---- brms.py run_single
    pc,               \* position in run_single
    species,          \* the species table of the taxonomy database
    tsv_file,         \* rows of the file --tsv: [AN, ncbi_taxid]
    igs_file,         \* rows of the file --igs: [AN, ID]
    tsv,              \* the table read from tsv_file (<<>> before)
    has_taxon_tree,   \* whether tsv has the column taxon_tree
    taxon_tree,       \* the column taxon_tree (<<>> while absent)
    tree,             \* leaf names of the current tree
    missing_in_tree,  \* result of the latest validade_tree
    extra_in_tree,
    round,            \* replacements applied so far (nesting depth)
    descendants,      \* <<descendants, descendants2>> as far as queried
    builds,           \* calls of ncbi.get_topology
    queries,          \* calls of get_first_descendants
    tree_file,        \* <<>> or <<leaves written to tree.nwk>>
    table_file,       \* <<>> or <<rows written to filtered.tsv>>
    runner_calls,     \* invocations of the Rscript subprocess
    exit_status       \* Running, then <<the process exit status>>

brms_vars == <<pc, species, tsv_file, igs_file, tsv, has_taxon_tree,
               taxon_tree, tree, missing_in_tree, extra_in_tree, round,
               descendants, builds, queries, tree_file, table_file,
               runner_calls, exit_status>>

VARIABLES
    \* ---- summary_igs.py igs_multiple
    ipc,              \* position of the submitting process in igs_multiple
    an_list,          \* tsv[an_column]: the accession numbers, in table order
    gff_files,        \* accession number -> its annotation file
    workers,          \* max_workers of the pool
    submitted,        \* tasks submitted so far (tasks[1..submitted])
    fstate,           \* task -> "pending" | "running" | "finished"
    yielded,          \* tasks as_completed has yielded
    all_records,      \* the list all_records
    df,               \* the sorted frame (<<>> before line 114)
    output_file,      \* <<>> or <<rows written to output_file>>
    igs_exit          \* Running, then <<the process exit status>>

igs_vars == <<ipc, an_list, gff_files, workers, submitted, fstate, yielded,
              all_records, df, output_file, igs_exit>>

vars == <<brms_vars, igs_vars>>

\* ------------------------------------------------------------ run_single
\* species tables over the taxids K: a forest, parents numbered below their
\* children (0: a parent that is no taxid of the model)
SpeciesTables(K) == {sp \in [K -> 0..MaxId] : \A t \in K : sp[t] < t}

TsvRows == [AN : ANs, ncbi_taxid : Ids]
TsvTables == SeqsFromTo(TsvRows, 1, MaxRows)

IgsRows == [AN : ANs, ID : FeatIds]
IgsTables == SeqsFromTo(IgsRows, 0, MaxIgsRows)

\* leaf sets ncbi.get_topology may return: names of taxids of the database
Trees == SUBSET {ToStr(t) : t \in DOMAIN species}

NcbiTaxid == [i \in 1..Len(tsv) |-> tsv[i].ncbi_taxid]

\* igs_multiple is not running
IgsIdle ==
    /\ ipc = "idle"
    /\ an_list = <<>>
    /\ gff_files = <<>>
    /\ workers = 1
    /\ submitted = 0
    /\ fstate = <<>>
    /\ yielded = {}
    /\ all_records = <<>>
    /\ df = <<>>
    /\ output_file = <<>>
    /\ igs_exit = Running

InitRun ==
    /\ IgsIdle
    /\ pc = "start"
    /\ tsv = <<>>
    /\ has_taxon_tree = FALSE
    /\ taxon_tree = <<>>
    /\ tree = {}
    /\ missing_in_tree = {}
    /\ extra_in_tree = {}
    /\ round = 0
    /\ descendants = <<>>
    /\ builds = 0
    /\ queries = 0
    /\ tree_file = <<>>
    /\ table_file = <<>>
    /\ runner_calls = 0
    /\ exit_status = Running

\* inputs that exercise the reconciliation: any taxid column and any species
\* table over Ids; accession numbers are the row numbers, one IGS row
InitBrms ==
    /\ InitRun
    /\ species \in SpeciesTables(Ids)
    /\ tsv_file \in {t \in TsvTables : \A i \in 1..Len(t) : t[i].AN = i}
    /\ igs_file = <<[AN |-> 1, ID |-> 1]>>

\* inputs that exercise the join: any accession column and any IGS table, a
\* database of the two taxids 1 and its child 2, every row of taxid 1
InitJoin ==
    /\ InitRun
    /\ species = (1 :> 0) @@ (2 :> 1)
    /\ tsv_file \in {t \in TsvTables : \A i \in 1..Len(t) : t[i].ncbi_taxid = 1}
    /\ igs_file \in IgsTables

\* lines 91-100: read the table; a table without the required columns exits 1
ReadTsv ==
    /\ pc = "start"
    /\ \/ /\ tsv' = tsv_file
          /\ pc' = "loaded"
          /\ UNCHANGED exit_status
       \/ /\ pc' = "schema_error"
          /\ exit_status' = <<1>>
          /\ UNCHANGED tsv
    /\ UNCHANGED <<igs_vars, species, tsv_file, igs_file, has_taxon_tree, taxon_tree,
                   tree, missing_in_tree, extra_in_tree, round, descendants,
                   builds, queries, tree_file, table_file, runner_calls>>

\* lines 111-113: tree = ncbi.get_topology(tsv["ncbi_taxid"])
BuildTree ==
    /\ pc = "loaded"
    /\ tree' \in Trees
    /\ builds' = builds + 1
    /\ pc' = "built"
    /\ UNCHANGED <<igs_vars, species, tsv_file, igs_file, tsv, has_taxon_tree,
                   taxon_tree, missing_in_tree, extra_in_tree, round,
                   descendants, queries, tree_file, table_file, runner_calls,
                   exit_status>>

\* line 119: if not missing_in_tree and not extra_in_tree
TreeMatches(v) == v.missing = {} /\ v.extra = {}

\* lines 115-121: validation of the first tree
Validate0 ==
    /\ pc = "built"
    /\ round = 0
    /\ LET v == validade_tree(tree, ColumnAsStrings(NcbiTaxid))
       IN  /\ missing_in_tree' = v.missing
           /\ extra_in_tree' = v.extra
           /\ IF TreeMatches(v)
                THEN /\ has_taxon_tree' = TRUE
                     /\ taxon_tree' = NcbiTaxid
                ELSE UNCHANGED <<has_taxon_tree, taxon_tree>>
    /\ pc' = "validated"
    /\ UNCHANGED <<igs_vars, species, tsv_file, igs_file, tsv, tree, round, descendants,
                   builds, queries, tree_file, table_file, runner_calls,
                   exit_status>>

\* lines 140-142 and 165-167: validation after a replacement
ValidateAgain ==
    /\ pc = "built"
    /\ round > 0
    /\ LET v == validade_tree(tree, ColumnAsStrings(taxon_tree))
       IN  /\ missing_in_tree' = v.missing
           /\ extra_in_tree' = v.extra
    /\ pc' = "validated"
    /\ UNCHANGED <<igs_vars, species, tsv_file, igs_file, tsv, has_taxon_tree,
                   taxon_tree, tree, round, descendants, builds, queries,
                   tree_file, table_file, runner_calls, exit_status>>

\* lines 124 and 145: if missing_in_tree / if missing_in_tree2
NeedsSubstitutionOnAnyMismatch == missing_in_tree # {} \/ extra_in_tree # {}
NeedsSubstitution == missing_in_tree # {}

\* line 169: the third validation is the last one (two nested replacements)
RoundsExhaustedOneLater == round >= 3
RoundsExhausted == round >= 2

\* lines 124-135 and 145-160: replace missing taxa by their first descendant
Substitute ==
    /\ pc = "validated"
    /\ NeedsSubstitution
    /\ ~RoundsExhausted
    /\ LET missing_int == {ToInt(x) : x \in missing_in_tree}
           d == get_first_descendants(species, missing_int)
           col == IF round = 0 THEN NcbiTaxid ELSE taxon_tree
       IN  /\ descendants' = Append(descendants, d)
           /\ taxon_tree' = replace_strict(col, d)
           /\ has_taxon_tree' = TRUE
    /\ queries' = queries + 1
    /\ pc' = "substituted"
    /\ UNCHANGED <<igs_vars, species, tsv_file, igs_file, tsv, tree, missing_in_tree,
                   extra_in_tree, round, builds, tree_file, table_file,
                   runner_calls, exit_status>>

\* lines 137-138 and 162-163: tree = ncbi.get_topology(tsv["taxon_tree"])
Rebuild ==
    /\ pc = "substituted"
    /\ tree' \in Trees
    /\ builds' = builds + 1
    /\ round' = round + 1
    /\ pc' = "built"
    /\ UNCHANGED <<igs_vars, species, tsv_file, igs_file, tsv, has_taxon_tree,
                   taxon_tree, missing_in_tree, extra_in_tree, descendants,
                   queries, tree_file, table_file, runner_calls, exit_status>>

\* lines 169-175: still missing after the second replacement: sys.exit(1)
GiveUp ==
    /\ pc = "validated"
    /\ NeedsSubstitution
    /\ RoundsExhausted
    /\ pc' = "failed"
    /\ exit_status' = <<1>>
    /\ UNCHANGED <<igs_vars, species, tsv_file, igs_file, tsv, has_taxon_tree,
                   taxon_tree, tree, missing_in_tree, extra_in_tree, round,
                   descendants, builds, queries, tree_file, table_file,
                   runner_calls>>

\* line 187 is reached when the innermost validation found nothing missing
ReachesWriteAlways == TRUE
ReachesWrite == ~NeedsSubstitution

\* line 187: tree.write(outfile=tree_path)
WriteTree ==
    /\ pc = "validated"
    /\ ReachesWrite
    /\ tree_file' = <<tree>>
    /\ pc' = "tree_written"
    /\ UNCHANGED <<igs_vars, species, tsv_file, igs_file, tsv, has_taxon_tree,
                   taxon_tree, tree, missing_in_tree, extra_in_tree, round,
                   descendants, builds, queries, table_file, runner_calls,
                   exit_status>>

\* the metadata cells a row of tsv contributes to a joined row
MetaOf(i) ==
    [ncbi_taxid |-> tsv[i].ncbi_taxid,
     taxon_tree |-> IF has_taxon_tree THEN taxon_tree[i] ELSE Null]

\* joined rows for one IGS row: one per row of tsv with the same accession
\* number, in table order; with how="left" a row without a match is kept
\* with null metadata
RECURSIVE MatchesFrom(_, _)
MatchesFrom(r, i) ==
    IF i > Len(tsv) THEN <<>>
    ELSE (IF tsv[i].AN = r.AN
            THEN <<[AN |-> r.AN, ID |-> r.ID,
                    ncbi_taxid |-> MetaOf(i).ncbi_taxid,
                    taxon_tree |-> MetaOf(i).taxon_tree]>>
            ELSE <<>>) \o MatchesFrom(r, i + 1)

UnmatchedInner(r) == <<>>
Unmatched(r) ==
    <<[AN |-> r.AN, ID |-> r.ID, ncbi_taxid |-> Null, taxon_tree |-> Null]>>

\* line 191: igs.join(tsv.lazy(), on=an_column, how="left")
RECURSIVE left_join(_)
left_join(igs) ==
    IF igs = <<>> THEN <<>>
    ELSE LET m == MatchesFrom(Head(igs), 1)
         IN  (IF m = <<>> THEN Unmatched(Head(igs)) ELSE m)
                \o left_join(Tail(igs))

KeyLE(a, b) == a.AN < b.AN \/ (a.AN = b.AN /\ a.ID <= b.ID)

\* line 202: igs.sort([an_column, "ID"]); polars does not keep the order of
\* rows with equal keys (maintain_order=False): every sorted arrangement of
\* the rows rows[i], i \in idx
RECURSIVE SortedArrangements(_, _)
SortedArrangements(rows, idx) ==
    IF idx = {} THEN {<<>>}
    ELSE UNION {
           {<<rows[i]>> \o t : t \in SortedArrangements(rows, idx \ {i})} :
             i \in {j \in idx : \A k \in idx :
                        /\ KeyLE(rows[j], rows[k])
                        /\ rows[k] = rows[j] => j <= k}}

\* lines 189-203: join, sort and write filtered.tsv (the derived columns
\* polarity_bin and log10_length add cells to each row, no row)
JoinDerive ==
    /\ pc = "tree_written"
    /\ LET joined == left_join(igs_file)
       IN  \E sorted \in SortedArrangements(joined, DOMAIN joined) :
               table_file' = <<sorted>>
    /\ pc' = "table_written"
    /\ UNCHANGED <<igs_vars, species, tsv_file, igs_file, tsv, has_taxon_tree,
                   taxon_tree, tree, missing_in_tree, extra_in_tree, round,
                   descendants, builds, queries, tree_file, runner_calls,
                   exit_status>>

\* lines 205-232: run the R script; a non-zero return code exits 1
RunModel ==
    /\ pc = "table_written"
    /\ runner_calls' = runner_calls + 1
    /\ \/ /\ pc' = "done"
          /\ exit_status' = <<0>>
       \/ /\ pc' = "runner_failed"
          /\ exit_status' = <<1>>
    /\ UNCHANGED <<igs_vars, species, tsv_file, igs_file, tsv, has_taxon_tree,
                   taxon_tree, tree, missing_in_tree, extra_in_tree, round,
                   descendants, builds, queries, tree_file, table_file>>

NextBrms ==
    \/ ReadTsv
    \/ BuildTree
    \/ Validate0
    \/ ValidateAgain
    \/ Substitute
    \/ Rebuild
    \/ GiveUp
    \/ WriteTree
    \/ JoinDerive
    \/ RunModel

SpecBrms == InitBrms /\ [][NextBrms]_vars
SpecJoin == InitJoin /\ [][NextBrms]_vars

\* ---------------------------------------------------- claims, run_single
FairSpecBrms == SpecBrms /\ WF_vars(NextBrms)

BrmsTerminal == {"schema_error", "failed", "runner_failed", "done"}

\* the column the current round validates: the working identifiers
WorkingColumn == IF round = 0 THEN NcbiTaxid ELSE taxon_tree

\* the tree has been written (reconciliation ended successfully)
Reconciled == tree_file # <<>>

\* C1: run_single builds at most 3 trees and queries descendants at most 2
\* times; a third validation that still finds taxa missing goes to the fatal
\* exit (status 1), after which nothing runs; every run terminates.
C1_RetryBudget ==
    /\ [](/\ builds <= 3
          /\ queries <= 2
          /\ queries <= builds
          /\ pc = "failed" =>
                /\ builds = 3
                /\ missing_in_tree # {}
                /\ exit_status = <<1>>
                /\ ~ENABLED NextBrms)
    /\ [][(pc = "validated" /\ builds = 3 /\ missing_in_tree # {})
            => (pc' = "failed" /\ builds' = 3 /\ queries' = queries)]_vars
    /\ <>(pc \in BrmsTerminal)

C1_Witness == pc = "failed" /\ builds = 3 /\ queries = 2

\* C2: when the tree is written its leaf set equals the working identifier
\* set exactly (nothing missing, nothing extra), whichever round succeeded.
C2_LeafSetEqualsWorkingSet ==
    Reconciled => tree_file[1] = ColumnAsStrings(WorkingColumn)

\* C3: when the validation of the first tree finds nothing missing, the run
\* has built one tree and queried no descendant, and the column taxon_tree
\* exists and equals ncbi_taxid on every row.
C3_IdentityRemapping ==
    (pc \notin {"start", "loaded", "built", "schema_error"}
        /\ round = 0 /\ missing_in_tree = {})
    => /\ builds = 1
       /\ queries = 0
       /\ has_taxon_tree
       /\ taxon_tree = NcbiTaxid

\* C4: tree.nwk is written only after a validation that found nothing
\* missing, filtered.tsv only after the tree and the R script only after the
\* table; a run that gave up has written neither, has not run the R script,
\* and takes no further step.
C4_NoArtifactsOnFailure ==
    /\ Reconciled => missing_in_tree = {} /\ tree_file[1] = tree
    /\ table_file # <<>> => Reconciled
    /\ runner_calls > 0 => table_file # <<>>
    /\ pc = "failed" =>
          /\ ~Reconciled
          /\ table_file = <<>>
          /\ runner_calls = 0
          /\ ~ENABLED NextBrms

C4_Witness == pc = "failed" /\ builds = 3 /\ ~Reconciled /\ runner_calls = 0

\* C8: a validation that reports extra leaves and nothing missing is followed
\* by the writing of the tree, in every round: no descendant query, no exit;
\* the fatal exit of the reconciliation always has missing taxa.
C8_ExtraNeverFails ==
    /\ [](pc = "failed" => missing_in_tree # {})
    /\ [][(pc = "validated" /\ missing_in_tree = {} /\ extra_in_tree # {})
            => /\ pc' = "tree_written"
               /\ tree_file' = <<tree>>
               /\ queries' = queries
               /\ builds' = builds
               /\ exit_status' = Running]_vars

C8_Witness ==
    pc = "tree_written" /\ extra_in_tree # {} /\ round = 2

\* the round mappings applied in order, identity where a mapping has no entry
RECURSIVE ApplyRounds(_, _)
ApplyRounds(ds, x) ==
    IF ds = <<>> THEN x
    ELSE ApplyRounds(Tail(ds),
                     IF x \in DOMAIN Head(ds) THEN Head(ds)[x] ELSE x)

\* C10: on success after k replacements the column taxon_tree maps every
\* original identifier to the round mappings applied in order, and the
\* working set is the image of the original identifiers.
C10_RemappingComposition ==
    Reconciled =>
       /\ Len(descendants) = round
       /\ has_taxon_tree
       /\ Len(taxon_tree) = Len(tsv)
       /\ \A i \in 1..Len(tsv) :
            taxon_tree[i] = ApplyRounds(descendants, tsv[i].ncbi_taxid)
       /\ ColumnAsStrings(WorkingColumn) =
            {ToStr(ApplyRounds(descendants, tsv[i].ncbi_taxid)) :
                i \in 1..Len(tsv)}

\* C10 without the runs whose first tree has extra leaves and nothing missing
C10_ExceptExtraOnFirstTree ==
    (Reconciled /\ ~(round = 0 /\ extra_in_tree # {}))
        => C10_RemappingComposition

\* rows of a table that satisfy Test
CountRows(table, Test(_)) == Cardinality({i \in DOMAIN table : Test(table[i])})

\* rows of the metadata table tsv with accession number an
MetaRows(an) == Cardinality({i \in DOMAIN tsv : tsv[i].AN = an})

\* C7 as stated: filtered.tsv has as many rows as the IGS table, every IGS
\* row once, rows without metadata kept with null cells, whatever the
\* metadata table holds.
C7_RowCountPreserved ==
    table_file # <<>> =>
       /\ Len(table_file[1]) = Len(igs_file)
       /\ \A an \in ANs, id \in FeatIds :
            LET Same(r) == r.AN = an /\ r.ID = id
            IN  CountRows(table_file[1], Same) = CountRows(igs_file, Same)

\* C7 amended: every IGS row is kept once for each metadata row of its
\* accession number, and once with null metadata when there is none; the row
\* count is that of the IGS table when no accession number of the IGS table
\* is listed twice in the metadata.
C7_LeftJoinKeepsRows ==
    table_file # <<>> =>
       LET merged == table_file[1]
           Multiplicity(an) == IF MetaRows(an) = 0 THEN 1 ELSE MetaRows(an)
       IN  /\ \A an \in ANs, id \in FeatIds :
                LET Same(r) == r.AN = an /\ r.ID = id
                IN  CountRows(merged, Same)
                        = CountRows(igs_file, Same) * Multiplicity(an)
           /\ \A i \in DOMAIN merged :
                /\ (merged[i].ncbi_taxid = Null) = (MetaRows(merged[i].AN) = 0)
                /\ MetaRows(merged[i].AN) = 0 => merged[i].taxon_tree = Null
           /\ (\A i \in DOMAIN igs_file : MetaRows(igs_file[i].AN) <= 1)
                => Len(merged) = Len(igs_file)
           /\ \A i, j \in DOMAIN merged :
                i <= j => (merged[i].AN < merged[j].AN
                           \/ (merged[i].AN = merged[j].AN
                               /\ merged[i].ID <= merged[j].ID))

\* a written table of two rows, one with metadata and one without
C7_Witness ==
    /\ table_file # <<>>
    /\ Len(igs_file) = 2
    /\ Len(table_file[1]) = 2
    /\ \E i, j \in DOMAIN table_file[1] :
          /\ table_file[1][i].ncbi_taxid = Null
          /\ table_file[1][j].ncbi_taxid # Null

\* ---------------------------------------------------------- igs_multiple
\* annotation records of one file (0..MaxRecs) and samples of one run
MaxRecs == 2
MaxSamples == 2
MaxWorkers == 2

\* a well-formed annotation file with the given feature ids: the feature on
\* line k spans k..2k
GffOf(ids) == [ok |-> TRUE,
               rows |-> [k \in 1..Len(ids) |->
                            [ID |-> ids[k], start |-> k, end |-> 2 * k]]]
\* a file pd.read_csv or the extraction raises on
Malformed == [ok |-> FALSE, rows |-> <<>>]
GffFiles == {GffOf(ids) : ids \in SeqsFromTo(FeatIds, 0, MaxRecs)} \cup {Malformed}

\* summary_igs(an, gff_path): the records of the file, in file order
summary_igs(an, file) ==
    [k \in 1..Len(file.rows) |->
        [AN |-> an, ID |-> file.rows[k].ID,
         Length |-> file.rows[k].end - file.rows[k].start + 1]]

\* future.result() of task i
TaskFile(i) == gff_files[an_list[i]]
ResultRaisesNever(i) == FALSE
ResultRaises(i) == ~TaskFile(i).ok
Result(i) == summary_igs(an_list[i], TaskFile(i))

Tasks == 1..Len(an_list)
Submitted == 1..submitted

\* brms.py is not running
BrmsIdle ==
    /\ pc = "idle"
    /\ species = <<>>
    /\ tsv_file = <<>>
    /\ igs_file = <<>>
    /\ tsv = <<>>
    /\ has_taxon_tree = FALSE
    /\ taxon_tree = <<>>
    /\ tree = {}
    /\ missing_in_tree = {}
    /\ extra_in_tree = {}
    /\ round = 0
    /\ descendants = <<>>
    /\ builds = 0
    /\ queries = 0
    /\ tree_file = <<>>
    /\ table_file = <<>>
    /\ runner_calls = 0
    /\ exit_status = Running

InitIgs ==
    /\ BrmsIdle
    /\ ipc = "submitting"
    /\ an_list \in SeqsFromTo(ANs, 0, MaxSamples)
    /\ gff_files \in [{an_list[i] : i \in 1..Len(an_list)} -> GffFiles]
    /\ workers \in 1..MaxWorkers
    /\ submitted = 0
    /\ fstate = <<>>
    /\ yielded = {}
    /\ all_records = <<>>
    /\ df = <<>>
    /\ output_file = <<>>
    /\ igs_exit = Running

\* lines 98-105: executor.submit for the next accession number
Submit ==
    /\ ipc = "submitting"
    /\ submitted < Len(an_list)
    /\ submitted' = submitted + 1
    /\ fstate' = Append(fstate, "pending")
    /\ UNCHANGED <<brms_vars, ipc, an_list, gff_files, workers, yielded,
                   all_records, df, output_file, igs_exit>>

\* lines 105-109: the list of tasks is complete; all_records = []
AllSubmittedFirst == submitted >= 1 \/ Len(an_list) = 0
AllSubmitted == submitted = Len(an_list)

StartCollect ==
    /\ ipc = "submitting"
    /\ AllSubmitted
    /\ ipc' = "collecting"
    /\ UNCHANGED <<brms_vars, an_list, gff_files, workers, submitted, fstate,
                   yielded, all_records, df, output_file, igs_exit>>

\* the pool: a free worker takes the oldest pending task
WorkerStart(i) ==
    /\ i \in Submitted
    /\ fstate[i] = "pending"
    /\ \A j \in Submitted : j < i => fstate[j] # "pending"
    /\ Cardinality({j \in Submitted : fstate[j] = "running"}) < workers
    /\ fstate' = [fstate EXCEPT ![i] = "running"]
    /\ UNCHANGED <<brms_vars, ipc, an_list, gff_files, workers, submitted,
                   yielded, all_records, df, output_file, igs_exit>>

\* the pool: summary_igs of task i returns or raises
WorkerFinish(i) ==
    /\ i \in Submitted
    /\ fstate[i] = "running"
    /\ fstate' = [fstate EXCEPT ![i] = "finished"]
    /\ UNCHANGED <<brms_vars, ipc, an_list, gff_files, workers, submitted,
                   yielded, all_records, df, output_file, igs_exit>>

\* lines 110-111: as_completed yields a finished task not yet yielded;
\* future.result() returns its records or raises its exception
Collect(i) ==
    /\ ipc = "collecting"
    /\ i \in Tasks \ yielded
    /\ fstate[i] = "finished"
    /\ yielded' = yielded \cup {i}
    /\ IF ResultRaises(i)
         THEN /\ ipc' = "raising"
              /\ UNCHANGED all_records
         ELSE /\ all_records' = all_records \o Result(i)
              /\ UNCHANGED ipc
    /\ UNCHANGED <<brms_vars, an_list, gff_files, workers, submitted, fstate,
                   df, output_file, igs_exit>>

\* line 110: the loop ends when as_completed has yielded every task
LoopEnds == yielded = Tasks

\* line 97: leaving the with block, executor.shutdown(wait=True) returns
\* once every submitted task has finished
PoolDrained == \A j \in Submitted : fstate[j] = "finished"

\* lines 110-112: the loop is over, the pool is shut down
ClosePool ==
    /\ ipc = "collecting"
    /\ LoopEnds
    /\ PoolDrained
    /\ ipc' = "pool_closed"
    /\ UNCHANGED <<brms_vars, an_list, gff_files, workers, submitted, fstate,
                   yielded, all_records, df, output_file, igs_exit>>

\* lines 97 and 111: the exception of future.result() leaves the with block
\* (shutdown waits for the tasks still queued or running) and ends the run
Propagate ==
    /\ ipc = "raising"
    /\ PoolDrained
    /\ ipc' = "failed"
    /\ igs_exit' = <<1>>
    /\ UNCHANGED <<brms_vars, an_list, gff_files, workers, submitted, fstate,
                   yielded, all_records, df, output_file>>

\* line 114: by=["AN", "ID"]
RecKeyLEByAn(a, b) == a.AN <= b.AN
RecKeyLE(a, b) == a.AN < b.AN \/ (a.AN = b.AN /\ a.ID <= b.ID)

\* sort_values on several columns is a stable sort (lexsort): a record goes
\* behind the records whose key is not greater
RECURSIVE InsertStable(_, _)
InsertStable(sorted, r) ==
    IF sorted = <<>> THEN <<r>>
    ELSE IF RecKeyLE(Head(sorted), r)
           THEN <<Head(sorted)>> \o InsertStable(Tail(sorted), r)
           ELSE <<r>> \o sorted

RECURSIVE sort_values(_)
sort_values(recs) ==
    IF recs = <<>> THEN <<>>
    ELSE InsertStable(sort_values(SubSeq(recs, 1, Len(recs) - 1)),
                      recs[Len(recs)])

\* lines 113-114: the frame of all_records, sorted; a frame of no records has
\* no column AN and sort_values raises KeyError
SortTable ==
    /\ ipc = "pool_closed"
    /\ IF all_records = <<>>
         THEN /\ ipc' = "failed"
              /\ igs_exit' = <<1>>
              /\ UNCHANGED df
         ELSE /\ df' = sort_values(all_records)
              /\ ipc' = "sorted"
              /\ UNCHANGED igs_exit
    /\ UNCHANGED <<brms_vars, an_list, gff_files, workers, submitted, fstate,
                   yielded, all_records, output_file>>

\* lines 115-117: df.to_csv(output_file)
WriteTable ==
    /\ ipc = "sorted"
    /\ output_file' = <<df>>
    /\ ipc' = "done"
    /\ igs_exit' = <<0>>
    /\ UNCHANGED <<brms_vars, an_list, gff_files, workers, submitted, fstate,
                   yielded, all_records, df>>

NextIgs ==
    \/ Submit
    \/ StartCollect
    \/ \E i \in Tasks : WorkerStart(i)
    \/ \E i \in Tasks : WorkerFinish(i)
    \/ \E i \in Tasks : Collect(i)
    \/ ClosePool
    \/ Propagate
    \/ SortTable
    \/ WriteTable

SpecIgs == InitIgs /\ [][NextIgs]_vars

\* ---------------------------------------------------- claims, igs_multiple
\* the records of every task, tagged <<task, line>>
Tagged == UNION {{<<i, k>> : k \in 1..Len(TaskFile(i).rows)} : i \in Tasks}
RecordOf(t) == Result(t[1])[t[2]]

\* the order of the expected table: by sample id, then feature id, then
\* submission order, then line of the file
Before(s, t) ==
    LET a == RecordOf(s)
        b == RecordOf(t)
    IN  \/ a.AN < b.AN
        \/ a.AN = b.AN /\ a.ID < b.ID
        \/ a.AN = b.AN /\ a.ID = b.ID /\ s[1] < t[1]
        \/ a.AN = b.AN /\ a.ID = b.ID /\ s[1] = t[1] /\ s[2] < t[2]

\* every record of every task, once per task, in that order
ExpectedTable ==
    [n \in 1..Cardinality(Tagged) |->
        RecordOf(CHOOSE t \in Tagged :
                    Cardinality({s \in Tagged : Before(s, t)}) = n - 1)]

\* task i has an annotation file the extraction fails on
ExtractionFails(i) == ~gff_files[an_list[i]].ok

\* C5: the table written by a run whose extractions all succeed is the
\* expected table, whatever the order in which the tasks completed and were
\* collected and whatever the number of workers.
C5_OrderIndependent ==
    output_file # <<>> =>
       /\ \A i \in Tasks : ~ExtractionFails(i)
       /\ output_file[1] = ExpectedTable

\* two samples with records, collected against the submission order
C5_Witness ==
    /\ ipc = "done"
    /\ Len(an_list) = 2
    /\ an_list[1] # an_list[2]
    /\ Result(1) # <<>>
    /\ Result(2) # <<>>
    /\ all_records = Result(2) \o Result(1)
    /\ output_file[1] # all_records

\* C6: with a failing extraction the run never sorts or writes a table and a
\* finished run has failed; once the failure is observed no record is added.
C6_FailureIsFatal ==
    /\ []((\E i \in Tasks : ExtractionFails(i)) =>
            /\ ipc \notin {"pool_closed", "sorted", "done"}
            /\ df = <<>>
            /\ output_file = <<>>
            /\ igs_exit \in {Running, <<1>>})
    /\ [][(\E i \in yielded : ExtractionFails(i))
            => /\ all_records' = all_records
               /\ ipc' \in {"raising", "failed"}]_vars

\* a failed run that had collected another task's records before
C6_Witness ==
    /\ ipc = "failed"
    /\ \E i \in yielded : ExtractionFails(i)
    /\ all_records # <<>>

\* C9: the frame is built, sorted and written only when every task has been
\* submitted and has finished, and no result is collected before every task
\* is submitted.
C9_Barrier ==
    /\ (ipc \in {"pool_closed", "sorted", "done"} \/ df # <<>>
            \/ output_file # <<>>)
         => /\ submitted = Len(an_list)
            /\ \A i \in Tasks : fstate[i] = "finished"
    /\ (ipc # "submitting" \/ yielded # {} \/ all_records # <<>>)
         => submitted = Len(an_list)

C9_Witness ==
    /\ ipc = "sorted"
    /\ Len(an_list) = 2
    /\ yielded = {1, 2}
====
